---- MODULE Spec2Model ----
(***************************************************************************)
(* Segment-to-slide alignment engine of the lecture-notes pipeline:        *)
(*   - merge_segments / slice_slides / segment_mapping / save_results      *)
(*     (src/src/segment_mapping.py): the full alignment run;               *)
(*   - post_process_endpoint / move_segment_endpoint (src/api/realtime.py) *)
(*     the corrections applied later to the stored result.json.            *)
(*                                                                         *)
(* Texts are sequences of one-character strings.  A rendered batch (a      *)
(* Python string made of snippets) is the sequence of its snippets, each   *)
(* snippet carrying the id and the text it was rendered from; its length   *)
(* in characters is computed as the f-string computes it.                  *)
(***************************************************************************)
EXTENDS Integers, Sequences, FiniteSets, TLC

VARIABLES
    pc,                     \* position of the job
    segments,               \* segment_split_data: sequence of [id, text]
    max_len,                \* max_segment_length
    min_len,                \* min_segment_length
    batches,                \* result of merge_segments
    image_captioning_data,  \* the deck: sequence of [slide_number, type]
    slide_window,           \* radius of the window
    slides,                 \* the deck without its meta slides
    i,                      \* number of batches classified so far
    current_centre,         \* centre of the window of the next batch
    relevant_slides,        \* window shown to the classifier for batch i
    batch_mappings,         \* mappings returned for batch i
    all_mappings,           \* mappings accumulated over the batches
    api_calls,              \* the calls of call_mapping_api so far, in order
    result,                 \* the assembled ResultBySlide
    result_json,            \* the stored result.json of the job
    request,                \* the correction request being answered
    response,               \* the reply to it
    locals,                 \* post-process: what was kept and what was moved
    corrections,            \* number of correction requests handled
    job_status,             \* process.py job_status[job_id]: status and progress
    job_results,            \* process.py job_results[job_id], when stored
    result_path_exists,     \* whether the job's result.json exists
    handlers,               \* overlapping correction requests: position, request, loaded document
    file_history            \* successive contents of result.json while requests overlap

inputVars == <<segments, max_len, min_len, image_captioning_data, slide_window>>
loopVars == <<i, current_centre, relevant_slides, batch_mappings, all_mappings, api_calls>>
corrVars == <<result_json, request, response, locals, corrections>>
jobVars == <<job_status, job_results, result_path_exists>>
concVars == <<handlers, file_history>>
vars == <<pc, inputVars, batches, slides, loopVars, result, corrVars, jobVars, concVars>>

(* ------------------------------------------------------------------ *)
(* Bounds of the model                                                 *)
(* ------------------------------------------------------------------ *)
MaxSegs == 3         \* segments in one transcript
MaxTextLen == 3      \* characters in one segment text
MaxBudget == 62      \* largest max_len / min_len tried
MaxSlides == 3       \* slides in the deck
MaxWindow == 1       \* largest window radius tried
MaxResp == 3         \* mappings in one classifier response
MaxDocSlides == 2    \* slides of a stored document
MaxFrags == 2        \* fragments the re-split of a slide text may return
MaxCorrections == 1  \* correction requests applied to one document

(* ------------------------------------------------------------------ *)
(* Generic helpers                                                     *)
(* ------------------------------------------------------------------ *)
Range(s) == {s[k] : k \in 1..Len(s)}

SeqsUpTo(S, n) == UNION {[1..k -> S] : k \in 0..n}

RECURSIVE NumDigits(_)
NumDigits(n) == IF n < 10 THEN 1 ELSE 1 + NumDigits(n \div 10)

(* len(str(n)) for an integer n, the minus sign included *)
StrLenOfInt(n) == IF n < 0 THEN 1 + NumDigits(0 - n) ELSE NumDigits(n)

(* ------------------------------------------------------------------ *)
(* Batcher: merge_segments                                             *)
(* ------------------------------------------------------------------ *)
PrefixLen == 14      \* len("- Segment ID: ")
MiddleLen == 9       \* len("\n  Text: ")
SuffixLen == 2       \* len("\n\n")

(* snippet = f"- Segment ID: {seg['id']}\n  Text: {seg['text']}\n\n" *)
Snippet(seg) == [id |-> seg.id, text |-> seg.text]

SnippetLen(sn) == PrefixLen + StrLenOfInt(sn.id) + MiddleLen + Len(sn.text) + SuffixLen

RECURSIVE BlockLen(_)
BlockLen(block) ==
    IF block = <<>> THEN 0 ELSE SnippetLen(Head(block)) + BlockLen(Tail(block))

(* the ids of a list of segments, in order *)
IdsOf(block) == [k \in 1..Len(block) |-> block[k].id]

(* the segment ids rendered into a batch, in order *)
IdsOfBatch(block) == [k \in 1..Len(block) |-> block[k].id]

(* variant: the flush test forgets the length of the incoming snippet *)
RECURSIVE MergeLoop_LateFlush(_, _, _, _)
MergeLoop_LateFlush(segs, bs, cur, maxl) ==
    IF segs = <<>> THEN [batches |-> bs, cur |-> cur]
    ELSE LET snippet == Snippet(Head(segs))
             flush == cur # <<>> /\ BlockLen(cur) > maxl
         IN  MergeLoop_LateFlush(Tail(segs),
                       IF flush THEN Append(bs, cur) ELSE bs,
                       Append(IF flush THEN <<>> ELSE cur, snippet),
                       maxl)

(* variant: the accumulator is flushed only once it has reached max_len *)
RECURSIVE MergeLoop_FlushWhenFull(_, _, _, _)
MergeLoop_FlushWhenFull(segs, bs, cur, maxl) ==
    IF segs = <<>> THEN [batches |-> bs, cur |-> cur]
    ELSE LET snippet == Snippet(Head(segs))
             flush == cur # <<>> /\ BlockLen(cur) >= maxl
         IN  MergeLoop_FlushWhenFull(Tail(segs),
                       IF flush THEN Append(bs, cur) ELSE bs,
                       Append(IF flush THEN <<>> ELSE cur, snippet),
                       maxl)

(* the for loop of merge_segments: returns the flushed batches and cur *)
RECURSIVE MergeLoop(_, _, _, _)
MergeLoop(segs, bs, cur, maxl) ==
    IF segs = <<>> THEN [batches |-> bs, cur |-> cur]
    ELSE LET snippet == Snippet(Head(segs))
             flush == cur # <<>> /\ BlockLen(cur) + SnippetLen(snippet) > maxl
         IN  MergeLoop(Tail(segs),
                       IF flush THEN Append(bs, cur) ELSE bs,
                       Append(IF flush THEN <<>> ELSE cur, snippet),
                       maxl)

(* variant: a short trailing remainder is dropped instead of appended *)
merge_segments_DropRemainder(segs, maxl, minl) ==
    LET r == MergeLoop(segs, <<>>, <<>>, maxl)
    IN  IF r.cur # <<>>
        THEN IF r.batches # <<>> /\ BlockLen(r.cur) < minl
             THEN r.batches
             ELSE Append(r.batches, r.cur)
        ELSE r.batches

(* variant: a remainder of exactly min_len is appended too *)
merge_segments_AppendAtMin(segs, maxl, minl) ==
    LET r == MergeLoop(segs, <<>>, <<>>, maxl)
    IN  IF r.cur # <<>>
        THEN IF r.batches # <<>> /\ BlockLen(r.cur) <= minl
             THEN [r.batches EXCEPT ![Len(r.batches)] = @ \o r.cur]
             ELSE Append(r.batches, r.cur)
        ELSE r.batches

merge_segments(segs, maxl, minl) ==
    LET r == MergeLoop(segs, <<>>, <<>>, maxl)
    IN  IF r.cur # <<>>
        THEN IF r.batches # <<>> /\ BlockLen(r.cur) < minl
             THEN [r.batches EXCEPT ![Len(r.batches)] = @ \o r.cur]
             ELSE Append(r.batches, r.cur)
        ELSE r.batches

(* ------------------------------------------------------------------ *)
(* Window Selector: slice_slides                                       *)
(* ------------------------------------------------------------------ *)
Max2(a, b) == IF a >= b THEN a ELSE b
Min2(a, b) == IF a <= b THEN a ELSE b

NotMeta(s) == s.type # "meta"

(* variant: the upper end of the window is not applied *)
slice_slides_NoEnd(sl, centre, window) ==
    LET start == Max2(1, centre - window)
        InWindow(s) == start <= s.slide_number
    IN  SelectSeq(sl, InWindow)

slice_slides(sl, centre, window) ==
    LET start == Max2(1, centre - window)
        end == centre + window
        InWindow(s) == start <= s.slide_number /\ s.slide_number <= end
    IN  SelectSeq(sl, InWindow)

(* ------------------------------------------------------------------ *)
(* Centre Tracker: the update at the end of the batch loop             *)
(* ------------------------------------------------------------------ *)
SetMax(S) == CHOOSE m \in S : \A n \in S : n <= m

ValidMappings(ms) == {ms[k].slide_id : k \in {j \in 1..Len(ms) : ms[j].slide_id # -1}}

(* variant: the centre is the highest matched slide itself *)
advance_NoStepBack(previous_centre, ms) ==
    IF ms # <<>> /\ ValidMappings(ms) # {}
    THEN SetMax(ValidMappings(ms))
    ELSE previous_centre

(* variant: the centre is two less than the highest matched slide *)
advance_TwoBack(previous_centre, ms) ==
    IF ms # <<>> /\ ValidMappings(ms) # {}
    THEN SetMax(ValidMappings(ms)) - 2
    ELSE previous_centre

advance(previous_centre, ms) ==
    IF ms # <<>> /\ ValidMappings(ms) # {}
    THEN SetMax(ValidMappings(ms)) - 1
    ELSE previous_centre

(* ------------------------------------------------------------------ *)
(* Result Assembler: save_results                                      *)
(* Ordered dictionaries are sequences of entries with distinct keys;   *)
(* the key "slideN" / "segmentM" is kept as its number N / M.          *)
(* ------------------------------------------------------------------ *)
KeyIndex(d, key) ==
    IF \E k \in 1..Len(d) : d[k].key = key
    THEN CHOOSE k \in 1..Len(d) : d[k].key = key
    ELSE 0

HasKey(d, key) == KeyIndex(d, key) # 0

(* d[key] = val : replaces in place, or appends a new entry *)
DictPut(d, key, val) ==
    IF HasKey(d, key)
    THEN [d EXCEPT ![KeyIndex(d, key)] = [key |-> key, val |-> val]]
    ELSE Append(d, [key |-> key, val |-> val])

DictGet(d, key) == d[KeyIndex(d, key)].val

Keys(d) == [k \in 1..Len(d) |-> d[k].key]

(* stable insertion of a ranked element into a sequence sorted by rank *)
RECURSIVE InsertByRank(_, _)
InsertByRank(sorted, e) ==
    IF sorted = <<>> THEN <<e>>
    ELSE IF e.rank < Head(sorted).rank
         THEN <<e>> \o sorted
         ELSE <<Head(sorted)>> \o InsertByRank(Tail(sorted), e)

RECURSIVE SortRanked(_)
SortRanked(sq) ==
    IF sq = <<>> THEN <<>>
    ELSE InsertByRank(SortRanked(SubSeq(sq, 1, Len(sq) - 1)), sq[Len(sq)])

(* sorted(seq, key=...), stable, the keys given as a sequence of ranks *)
SortedByRank(sq, ranks) ==
    LET ranked == SortRanked([k \in 1..Len(sq) |-> [rank |-> ranks[k], elem |-> sq[k]]])
    IN  [k \in 1..Len(sq) |-> ranked[k].elem]

(* next((seg["text"] for seg in segments if seg["id"] == segment_id), "") *)
SegmentText(segs, segment_id) ==
    IF \E k \in 1..Len(segs) : segs[k].id = segment_id
    THEN segs[CHOOSE k \in 1..Len(segs) :
                 /\ segs[k].id = segment_id
                 /\ \A j \in 1..(k - 1) : segs[j].id # segment_id].text
    ELSE <<>>

(* "slide0" if slide_id == -1 else f"slide{slide_id}" *)
SlideKey(slide_id) == IF slide_id = -1 THEN 0 ELSE slide_id

(* the grouping loop of save_results *)
RECURSIVE GroupBySlide(_, _, _)
GroupBySlide(ms, segs, slide_segments) ==
    IF ms = <<>> THEN slide_segments
    ELSE LET mapping == Head(ms)
             slide_key == SlideKey(mapping.slide_id)
             old == IF HasKey(slide_segments, slide_key)
                    THEN DictGet(slide_segments, slide_key) ELSE <<>>
             new == DictPut(old, mapping.segment_id,
                            SegmentText(segs, mapping.segment_id))
         IN  GroupBySlide(Tail(ms), segs, DictPut(slide_segments, slide_key, new))

(* int(x[0].replace("slide", "")) if x[0] != "slide0" else -1 *)
SlideRanks(d) == [k \in 1..Len(d) |-> IF d[k].key = 0 THEN -1 ELSE d[k].key]

(* int(x[0].replace("segment", "")) *)
SegmentRanks(d) == [k \in 1..Len(d) |-> d[k].key]

(* variant: the segments of a slide stay in insertion order *)
save_results_InsertionOrder(ms, segs) ==
    LET slide_segments == GroupBySlide(ms, segs, <<>>)
    IN  SortedByRank(slide_segments, SlideRanks(slide_segments))

save_results(ms, segs) ==
    LET slide_segments == GroupBySlide(ms, segs, <<>>)
        sorted_slides == SortedByRank(slide_segments, SlideRanks(slide_segments))
    IN  [k \in 1..Len(sorted_slides) |->
            [key |-> sorted_slides[k].key,
             val |-> SortedByRank(sorted_slides[k].val, SegmentRanks(sorted_slides[k].val))]]

(* key=lambda m: m["segment_id"] *)
MappingRanks(ms) == [k \in 1..Len(ms) |-> ms[k].segment_id]

(* ------------------------------------------------------------------ *)
(* Python string operations used by the correction endpoints           *)
(* ------------------------------------------------------------------ *)
SP == <<" ">>

IsSpace(c) == c = " "

(* sub in t *)
Contains(t, sub) ==
    \E p \in 1..(Len(t) - Len(sub) + 1) : SubSeq(t, p, p + Len(sub) - 1) = sub

RECURSIVE LStrip(_)
LStrip(t) == IF t # <<>> /\ IsSpace(Head(t)) THEN LStrip(Tail(t)) ELSE t

RECURSIVE RStrip(_)
RStrip(t) ==
    IF t # <<>> /\ IsSpace(t[Len(t)]) THEN RStrip(SubSeq(t, 1, Len(t) - 1)) ELSE t

(* t.strip() *)
Strip(t) == RStrip(LStrip(t))

(* t.replace(sub, ""), sub non-empty: every non-overlapping occurrence,
   scanning from the left *)
RECURSIVE RemoveAll(_, _)
RemoveAll(t, sub) ==
    IF Len(t) < Len(sub) THEN t
    ELSE IF SubSeq(t, 1, Len(sub)) = sub
         THEN RemoveAll(SubSeq(t, Len(sub) + 1, Len(t)), sub)
         ELSE <<Head(t)>> \o RemoveAll(Tail(t), sub)

(* t.split(): the maximal runs of non-space characters *)
RECURSIVE SplitFrom(_, _)
SplitFrom(t, word) ==
    IF t = <<>> THEN (IF word = <<>> THEN <<>> ELSE <<word>>)
    ELSE IF IsSpace(Head(t))
         THEN (IF word = <<>> THEN <<>> ELSE <<word>>) \o SplitFrom(Tail(t), <<>>)
         ELSE SplitFrom(Tail(t), Append(word, Head(t)))

Split(t) == SplitFrom(t, <<>>)

(* " ".join(parts) *)
RECURSIVE Join(_)
Join(parts) ==
    IF parts = <<>> THEN <<>>
    ELSE IF Len(parts) = 1 THEN parts[1]
         ELSE parts[1] \o SP \o Join(Tail(parts))

(* ------------------------------------------------------------------ *)
(* Inputs                                                              *)
(* ------------------------------------------------------------------ *)
SegTexts == {[k \in 1..n |-> "x"] : n \in 1..MaxTextLen}

(* the segmentation step numbers the segments 1..n *)
SegmentLists ==
    {[k \in 1..Len(ts) |-> [id |-> k, text |-> ts[k]]] : ts \in SeqsUpTo(SegTexts, MaxSegs)}

MaxLens == {m \in 1..MaxBudget : m = 1 \/ m >= PrefixLen + MiddleLen + SuffixLen}
MinLens == {0, 28, 30, MaxBudget}

(* the captioning step numbers the slides 1..n and tags each with a type *)
SlideTypes == {"meta", "content"}

Decks ==
    {[k \in 1..Len(ts) |-> [slide_number |-> k, type |-> ts[k]]] :
        ts \in {<<>>} \cup [1..MaxSlides -> SlideTypes]}

(* segment lists of the full run: segment k has a text of its own length *)
RunSegmentLists ==
    {[k \in 1..n |-> [id |-> k, text |-> [j \in 1..(((k - 1) % MaxTextLen) + 1) |-> "x"]]] :
        n \in 0..MaxSegs}

RunMaxLens == {1, MaxBudget}
RunMinLens == {0, MaxBudget}

(* the windows of the full run: the current slide alone, or the widest *)
RunWindows == {0, MaxWindow}

(* what the classifier may answer for a batch: any list of mappings of
   the batch's segment ids (omissions and repetitions included) to -1 or
   to a slide number of the deck, offered or not.  The list is taken in
   non-decreasing segment id order, which the stable sort of all_mappings
   would restore anyway. *)
OracleSlideIds == {-1} \cup (1..MaxSlides)

OracleResponses(ids) ==
    {r \in SeqsUpTo([segment_id : Range(ids), slide_id : OracleSlideIds],
                     Min2(MaxResp, Len(ids))) :
        \A k \in 1..(Len(r) - 1) : r[k].segment_id <= r[k + 1].segment_id}

(* ------------------------------------------------------------------ *)
(* The full alignment run: segment_mapping                             *)
(* ------------------------------------------------------------------ *)
(* process.py lines 323-355: the assembled result without slide0 and
   without slides beyond the deck *)
final_result(mapped_segments, deck_size) ==
    SelectSeq(mapped_segments, LAMBDA e : e.key # 0 /\ e.key <= deck_size)

(* process.py lines 123-146: the job's status record and stored result *)
JobStatus(progress, status) == [progress |-> progress, status |-> status]

NoJobResult == [stored |-> FALSE, result |-> <<>>]

NoRequest == [op |-> "none"]
NoResponse == [status |-> 0]
NoLocals == [outcome |-> "none"]

InitCommon ==
    /\ pc = "created"
    /\ result_json = <<>>
    /\ request = NoRequest
    /\ response = NoResponse
    /\ locals = NoLocals
    /\ corrections = 0
    /\ batches = <<>>
    /\ slides = <<>>
    /\ i = 0
    /\ current_centre = 0
    /\ relevant_slides = <<>>
    /\ batch_mappings = <<>>
    /\ all_mappings = <<>>
    /\ api_calls = <<>>
    /\ result = <<>>
    /\ job_status = JobStatus(0, "processing")
    /\ job_results = NoJobResult
    /\ result_path_exists = FALSE
    /\ handlers = <<>>
    /\ file_history = <<>>

Init ==
    /\ InitCommon
    /\ segments \in RunSegmentLists
    /\ max_len \in RunMaxLens
    /\ min_len \in RunMinLens
    /\ image_captioning_data \in Decks
    /\ slide_window \in RunWindows

(* variant: the first centre is the first slide of the deck, meta or not *)
Batching_FirstOfDeck ==
    /\ pc = "created"
    /\ slides' = SelectSeq(image_captioning_data, NotMeta)
    /\ batches' = merge_segments(segments, max_len, min_len)
    /\ current_centre' = IF image_captioning_data # <<>>
                         THEN image_captioning_data[1].slide_number ELSE 1
    /\ all_mappings' = <<>>
    /\ api_calls' = <<>>
    /\ i' = 0
    /\ pc' = "classifying"
    /\ job_status' = JobStatus(60, "processing")
    /\ UNCHANGED <<concVars, inputVars, relevant_slides, batch_mappings, result, corrVars,
                   job_results, result_path_exists>>

(* lines 268-278: filter the deck, batch the segments, set the centre *)
Batching ==
    /\ pc = "created"
    /\ slides' = SelectSeq(image_captioning_data, NotMeta)
    /\ batches' = merge_segments(segments, max_len, min_len)
    /\ current_centre' = IF slides' # <<>> THEN slides'[1].slide_number ELSE 1
    /\ all_mappings' = <<>>
    /\ api_calls' = <<>>
    /\ i' = 0
    /\ pc' = "classifying"
    /\ job_status' = JobStatus(60, "processing")
    /\ UNCHANGED <<concVars, inputVars, relevant_slides, batch_mappings, result, corrVars,
                   job_results, result_path_exists>>

(* lines 283-297: one call of call_mapping_api, with the message
   number, the batch and the window it was given, and what came back *)
ApiCall(message_count, batch, window, returned, mappings) ==
    [message_count |-> message_count, batch |-> batch, relevant_slides |-> window,
     returned |-> returned, mappings |-> mappings]

(* variant: every batch is shown the window of the first batch *)
ClassifyBatch_FirstWindow ==
    /\ pc = "classifying"
    /\ i < Len(batches)
    /\ \E answer \in OracleResponses(IdsOfBatch(batches[i + 1])) :
          /\ relevant_slides' = slice_slides(slides,
                                             IF slides # <<>> THEN slides[1].slide_number ELSE 1,
                                             slide_window)
          /\ batch_mappings' = answer
          /\ all_mappings' = all_mappings \o answer
          /\ current_centre' = advance(current_centre, answer)
          /\ api_calls' = Append(api_calls,
                                 ApiCall(i + 1, batches[i + 1], relevant_slides', TRUE, answer))
    /\ i' = i + 1
    /\ job_status' = JobStatus(60 + (((i + 1) * 10) \div Len(batches)), "processing")
    /\ UNCHANGED <<concVars, pc, inputVars, batches, slides, result, corrVars,
                   job_results, result_path_exists>>

(* one iteration of the batch loop, the classifier answering *)
ClassifyBatch ==
    /\ pc = "classifying"
    /\ i < Len(batches)
    /\ \E answer \in OracleResponses(IdsOfBatch(batches[i + 1])) :
          /\ relevant_slides' = slice_slides(slides, current_centre, slide_window)
          /\ batch_mappings' = answer
          /\ all_mappings' = all_mappings \o answer
          /\ current_centre' = advance(current_centre, answer)
          /\ api_calls' = Append(api_calls,
                                 ApiCall(i + 1, batches[i + 1], relevant_slides', TRUE, answer))
    /\ i' = i + 1
    /\ job_status' = JobStatus(60 + (((i + 1) * 10) \div Len(batches)), "processing")
    /\ UNCHANGED <<concVars, pc, inputVars, batches, slides, result, corrVars,
                   job_results, result_path_exists>>

(* variant: the failing run persists what it has mapped so far *)
ClassifyFails_WritesPartial ==
    /\ pc = "classifying"
    /\ i < Len(batches)
    /\ relevant_slides' = slice_slides(slides, current_centre, slide_window)
    /\ pc' = "failed"
    /\ job_status' = JobStatus(0, "failed")
    /\ api_calls' = Append(api_calls,
                           ApiCall(i + 1, batches[i + 1], relevant_slides', FALSE, <<>>))
    /\ result_json' = final_result(save_results(all_mappings, segments),
                                   Len(image_captioning_data))
    /\ result_path_exists' = TRUE
    /\ UNCHANGED <<concVars, inputVars, batches, slides, i, current_centre,
                   batch_mappings, all_mappings, result,
                   request, response, locals, corrections, job_results>>

(* one iteration of the batch loop, the classifier call raising: the
   exception leaves segment_mapping and is caught by the job
   (process.py lines 387-388) *)
ClassifyFails ==
    /\ pc = "classifying"
    /\ i < Len(batches)
    /\ relevant_slides' = slice_slides(slides, current_centre, slide_window)
    /\ pc' = "failed"
    /\ job_status' = JobStatus(0, "failed")
    /\ api_calls' = Append(api_calls,
                           ApiCall(i + 1, batches[i + 1], relevant_slides', FALSE, <<>>))
    /\ UNCHANGED <<concVars, inputVars, batches, slides, i, current_centre,
                   batch_mappings, all_mappings, result, corrVars,
                   job_results, result_path_exists>>

(* lines 306-311: sort the mappings, assemble and return the result *)
Assemble ==
    /\ pc = "classifying"
    /\ i = Len(batches)
    /\ all_mappings' = SortedByRank(all_mappings, MappingRanks(all_mappings))
    /\ result' = save_results(all_mappings', segments)
    /\ pc' = "assembled"
    /\ job_status' = JobStatus(70, "processing")
    /\ UNCHANGED <<concVars, inputVars, batches, slides, i, current_centre,
                   relevant_slides, batch_mappings, api_calls, corrVars,
                   job_results, result_path_exists>>

fullRunVars == <<inputVars, batches, slides, loopVars, result>>

(* segment_mapping has returned: its local variables are gone *)
Returned ==
    /\ batches' = <<>>
    /\ slides' = <<>>
    /\ i' = 0
    /\ current_centre' = 0
    /\ relevant_slides' = <<>>
    /\ batch_mappings' = <<>>
    /\ all_mappings' = <<>>
    /\ api_calls' = <<>>

(* process.py lines 319, 387-388: create_summary raising *)
SummaryFails ==
    /\ pc = "assembled"
    /\ Returned
    /\ pc' = "failed"
    /\ job_status' = JobStatus(0, "failed")
    /\ UNCHANGED <<concVars, inputVars, result, corrVars, job_results, result_path_exists>>

(* variant: the job is reported completed as soon as the file is written *)
WriteResult_ReportsCompleted ==
    /\ pc = "assembled"
    /\ Returned
    /\ result_json' = final_result(result, Len(image_captioning_data))
    /\ result_path_exists' = TRUE
    /\ job_status' = JobStatus(100, "completed")
    /\ pc' = "written"
    /\ UNCHANGED <<concVars, inputVars, result, request, response, locals, corrections,
                   job_results>>

(* process.py lines 319-368: the summary is made, the final result is
   built and written to result.json *)
WriteResult ==
    /\ pc = "assembled"
    /\ Returned
    /\ result_json' = final_result(result, Len(image_captioning_data))
    /\ result_path_exists' = TRUE
    /\ job_status' = JobStatus(95, "processing")
    /\ pc' = "written"
    /\ UNCHANGED <<concVars, inputVars, result, request, response, locals, corrections,
                   job_results>>

(* process.py line 371: set_job_result *)
SetJobResult ==
    /\ pc = "written"
    /\ job_results' = [stored |-> TRUE, result |-> result_json]
    /\ pc' = "stored"
    /\ UNCHANGED <<concVars, fullRunVars, corrVars, job_status, result_path_exists>>

(* process.py line 385: the job is reported completed *)
Complete ==
    /\ pc = "stored"
    /\ job_status' = JobStatus(100, "completed")
    /\ pc' = "completed"
    /\ UNCHANGED <<concVars, fullRunVars, corrVars, job_results, result_path_exists>>

Next ==
    \/ Batching \/ ClassifyBatch \/ ClassifyFails \/ Assemble
    \/ SummaryFails \/ WriteResult \/ SetJobResult \/ Complete

Spec == Init /\ [][Next]_vars

(* ------------------------------------------------------------------ *)
(* Specification of the Batcher alone, over a wider range of budgets   *)
(* ------------------------------------------------------------------ *)
InitMerge ==
    /\ InitCommon
    /\ segments \in SegmentLists
    /\ max_len \in MaxLens
    /\ min_len \in MinLens
    /\ image_captioning_data = <<>>
    /\ slide_window = 0

NextMerge == Batching

SpecMerge == InitMerge /\ [][NextMerge]_vars

(* ------------------------------------------------------------------ *)
(* Specification of the Result Assembler alone, over any mapping list  *)
(* ------------------------------------------------------------------ *)
(* slide ids of a mapping: -1, 0 (both stored under slide0) or a slide
   number; segment ids with or without a segment of that id *)
AnyMappings ==
    SeqsUpTo([segment_id : 1..MaxSegs, slide_id : {-1, 0} \cup (1..MaxSlides)], MaxResp)

InitAssemble ==
    /\ InitCommon
    /\ segments \in {[k \in 1..n |-> [id |-> k, text |-> <<"x">>]] : n \in {0, MaxSegs}}
    /\ max_len = 1
    /\ min_len = 0
    /\ image_captioning_data = <<>>
    /\ slide_window = 0

(* any list of mappings reaches the assembler *)
ReceiveMappings ==
    /\ pc = "created"
    /\ all_mappings' \in AnyMappings
    /\ pc' = "mapped"
    /\ UNCHANGED <<concVars, inputVars, batches, slides, i, current_centre, relevant_slides,
                   batch_mappings, api_calls, result, corrVars, jobVars>>

(* save_results, lines 200-240 *)
SaveResults ==
    /\ pc = "mapped"
    /\ result' = save_results(all_mappings, segments)
    /\ pc' = "saved"
    /\ UNCHANGED <<concVars, inputVars, batches, slides, loopVars, corrVars, jobVars>>

NextAssemble == ReceiveMappings \/ SaveResults

SpecAssemble == InitAssemble /\ [][NextAssemble]_vars

(* ------------------------------------------------------------------ *)
(* The candidates of post-process: get_relevant_slides                 *)
(* ------------------------------------------------------------------ *)
SlideNumbers(sl) == [k \in 1..Len(sl) |-> sl[k].slide_number]

(* variant: the slide before the centre is not offered *)
get_relevant_slides_NoPrevious(sl, centre) ==
    LET Near(s) == s.slide_number \in {centre, centre + 1}
        near == SelectSeq(sl, Near)
    IN  SortedByRank(near, SlideNumbers(near))

(* post_process.py lines 49-55 *)
get_relevant_slides(sl, centre) ==
    LET Near(s) == s.slide_number \in {centre - 1, centre, centre + 1}
        near == SelectSeq(sl, Near)
    IN  SortedByRank(near, SlideNumbers(near))

(* decks for the comparison: slides numbered from 1 on, every number at
   most once, in any order, meta or not *)
NumberedDecks ==
    {d \in SeqsUpTo([slide_number : 1..(MaxSlides + 1), type : SlideTypes], MaxSlides) :
        \A a, b \in 1..Len(d) : a # b => d[a].slide_number # d[b].slide_number}

InitWindow ==
    /\ InitCommon
    /\ segments = <<>>
    /\ max_len = 1
    /\ min_len = 0
    /\ image_captioning_data \in NumberedDecks
    /\ slide_window = 1

(* post_process.py lines 214-215: a flagged slide arrives, the meta
   slides are left out *)
PrepareSlides ==
    /\ pc = "created"
    /\ slides' = SelectSeq(image_captioning_data, NotMeta)
    /\ current_centre' \in 1..(MaxSlides + 2)
    /\ pc' = "prepared"
    /\ UNCHANGED <<concVars, inputVars, batches, i, relevant_slides, batch_mappings,
                   all_mappings, api_calls, result, corrVars, jobVars>>

(* post_process.py line 221 *)
SelectRelevant ==
    /\ pc = "prepared"
    /\ relevant_slides' = get_relevant_slides(slides, current_centre)
    /\ pc' = "selected"
    /\ UNCHANGED <<concVars, inputVars, batches, slides, i, current_centre, batch_mappings,
                   all_mappings, api_calls, result, corrVars, jobVars>>

NextWindow == PrepareSlides \/ SelectRelevant

SpecWindow == InitWindow /\ [][NextWindow]_vars

(* ================================================================== *)
(* Correction Engine: post_process_endpoint and move_segment_endpoint   *)
(* The stored document is an ordered dictionary slide number ->        *)
(* Segments, Segments an ordered dictionary segment number -> text.    *)
(* The summary fields of a slide are not part of this model.           *)
(* ================================================================== *)

(* slide_text += segment_data.get("text", "") + " " over the Segments *)
RECURSIVE SlideText(_)
SlideText(segs) ==
    IF segs = <<>> THEN <<>> ELSE Head(segs).val \o SP \o SlideText(Tail(segs))

(* the text of a slide as post-process reads it: every segment text of
   the slide in stored order, stripped; empty when the slide is absent *)
AggregateText(doc, slide_num) ==
    IF HasKey(doc, slide_num) THEN Strip(SlideText(DictGet(doc, slide_num))) ELSE <<>>

(* the slide and its segment{N} entry are created when absent *)
(* variant: a slide without its segment{N} entry is started afresh *)
EnsureEntry_ResetsSlide(doc, slide_num) ==
    LET withSlide == IF HasKey(doc, slide_num) THEN doc ELSE DictPut(doc, slide_num, <<>>)
        segs == DictGet(withSlide, slide_num)
    IN  IF HasKey(segs, slide_num) THEN withSlide
        ELSE DictPut(withSlide, slide_num, DictPut(<<>>, slide_num, <<>>))

EnsureEntry(doc, slide_num) ==
    LET withSlide == IF HasKey(doc, slide_num) THEN doc ELSE DictPut(doc, slide_num, <<>>)
        segs == DictGet(withSlide, slide_num)
    IN  IF HasKey(segs, slide_num) THEN withSlide
        ELSE DictPut(withSlide, slide_num, DictPut(segs, slide_num, <<>>))

(* variant: the text that is replaced is kept under an entry of its own *)
SetMainText_KeepsPrevious(doc, slide_num, text) ==
    LET segs == DictGet(doc, slide_num)
    IN  DictPut(doc, slide_num,
                DictPut(DictPut(segs, slide_num, text), 0, DictGet(segs, slide_num)))

SetMainText(doc, slide_num, text) ==
    DictPut(doc, slide_num, DictPut(DictGet(doc, slide_num), slide_num, text))

MainText(doc, slide_num) == DictGet(DictGet(doc, slide_num), slide_num)

(* the directional rule, shared by both endpoints (lines 474-487, 780-790) *)
Spliced(existing_text, moved_text, target_slide, from_slide) ==
    IF target_slide < from_slide
    THEN Strip(IF existing_text # <<>> THEN existing_text \o SP \o moved_text ELSE moved_text)
    ELSE Strip(IF existing_text # <<>> THEN moved_text \o SP \o existing_text ELSE moved_text)

(* ---------------- move_segment_endpoint ---------------- *)
(* variant: a missing start slide is created before the error reply *)
move_segment_CreatesStart(result_data, start_slide, target_slide, text_to_move) ==
    IF text_to_move = <<>>
    THEN [doc |-> result_data, response |-> [status |-> 400, error |-> "required"]]
    ELSE IF ~HasKey(result_data, start_slide)
    THEN [doc |-> EnsureEntry(result_data, start_slide),
          response |-> [status |-> 404, error |-> "Start slide not found"]]
    ELSE IF ~HasKey(DictGet(result_data, start_slide), start_slide)
    THEN [doc |-> result_data, response |-> [status |-> 404, error |-> "Segment not found in slide"]]
    ELSE LET current_text == MainText(result_data, start_slide)
         IN  IF ~Contains(current_text, text_to_move)
             THEN [doc |-> result_data,
                   response |-> [status |-> 404, error |-> "Text to move not found"]]
             ELSE LET updated_start_text ==
                          Join(Split(Strip(RemoveAll(current_text, text_to_move))))
                      removed == SetMainText(result_data, start_slide, updated_start_text)
                  IN  IF target_slide = 0
                      THEN [doc |-> removed,
                            response |-> [status |-> 200, action |-> "deleted"]]
                      ELSE LET ensured == EnsureEntry(removed, target_slide)
                               target_current_text == MainText(ensured, target_slide)
                               new_text == Spliced(target_current_text, text_to_move,
                                                   target_slide, start_slide)
                           IN  [doc |-> SetMainText(ensured, target_slide, new_text),
                                response |-> [status |-> 200, action |-> "moved"]]

(* variant: a deletion that empties the start slide drops the slide *)
move_segment_DropEmptied(result_data, start_slide, target_slide, text_to_move) ==
    IF text_to_move = <<>>
    THEN [doc |-> result_data, response |-> [status |-> 400, error |-> "required"]]
    ELSE IF ~HasKey(result_data, start_slide)
    THEN [doc |-> result_data, response |-> [status |-> 404, error |-> "Start slide not found"]]
    ELSE IF ~HasKey(DictGet(result_data, start_slide), start_slide)
    THEN [doc |-> result_data, response |-> [status |-> 404, error |-> "Segment not found in slide"]]
    ELSE LET current_text == MainText(result_data, start_slide)
         IN  IF ~Contains(current_text, text_to_move)
             THEN [doc |-> result_data,
                   response |-> [status |-> 404, error |-> "Text to move not found"]]
             ELSE LET updated_start_text ==
                          Join(Split(Strip(RemoveAll(current_text, text_to_move))))
                      removed == SetMainText(result_data, start_slide, updated_start_text)
                  IN  IF target_slide = 0
                      THEN [doc |-> IF updated_start_text = <<>>
                                    THEN SelectSeq(removed, LAMBDA e : e.key # start_slide)
                                    ELSE removed,
                            response |-> [status |-> 200, action |-> "deleted"]]
                      ELSE LET ensured == EnsureEntry(removed, target_slide)
                               target_current_text == MainText(ensured, target_slide)
                               new_text == Spliced(target_current_text, text_to_move,
                                                   target_slide, start_slide)
                           IN  [doc |-> SetMainText(ensured, target_slide, new_text),
                                response |-> [status |-> 200, action |-> "moved"]]

move_segment(result_data, start_slide, target_slide, text_to_move) ==
    IF text_to_move = <<>>
    THEN [doc |-> result_data, response |-> [status |-> 400, error |-> "required"]]
    ELSE IF ~HasKey(result_data, start_slide)
    THEN [doc |-> result_data, response |-> [status |-> 404, error |-> "Start slide not found"]]
    ELSE IF ~HasKey(DictGet(result_data, start_slide), start_slide)
    THEN [doc |-> result_data, response |-> [status |-> 404, error |-> "Segment not found in slide"]]
    ELSE LET current_text == MainText(result_data, start_slide)
         IN  IF ~Contains(current_text, text_to_move)
             THEN [doc |-> result_data,
                   response |-> [status |-> 404, error |-> "Text to move not found"]]
             ELSE LET updated_start_text ==
                          Join(Split(Strip(RemoveAll(current_text, text_to_move))))
                      removed == SetMainText(result_data, start_slide, updated_start_text)
                  IN  IF target_slide = 0
                      THEN [doc |-> removed,
                            response |-> [status |-> 200, action |-> "deleted"]]
                      ELSE LET ensured == EnsureEntry(removed, target_slide)
                               target_current_text == MainText(ensured, target_slide)
                               new_text == Spliced(target_current_text, text_to_move,
                                                   target_slide, start_slide)
                           IN  [doc |-> SetMainText(ensured, target_slide, new_text),
                                response |-> [status |-> 200, action |-> "moved"]]

(* ---------------- post_process_endpoint ---------------- *)

(* the re-split of a slide text (an external service): the words of the
   text cut into at most MaxFrags consecutive groups, numbered from 1 *)
RECURSIVE GroupWords(_, _, _, _)
GroupWords(words, k, cuts, group) ==
    IF k > Len(words) THEN (IF group = <<>> THEN <<>> ELSE <<Join(group)>>)
    ELSE IF k \in cuts
         THEN <<Join(Append(group, words[k]))>> \o GroupWords(words, k + 1, cuts, <<>>)
         ELSE GroupWords(words, k + 1, cuts, Append(group, words[k]))

SegmentSplits(text) ==
    LET words == Split(text)
    IN  {LET texts == GroupWords(words, 1, cuts, <<>>)
         IN  [k \in 1..Len(texts) |-> [id |-> k, text |-> texts[k]]] :
            cuts \in {c \in SUBSET (1..(Len(words) - 1)) : Cardinality(c) < MaxFrags}}

(* what the classifier may answer in post_process: every fragment at
   most once (a fragment may be left out), or one fragment twice and no
   other *)
CorrectionSlideIds == {-1} \cup (1..MaxDocSlides)

AnswersOnce(ids) ==
    {LET answered == SelectSeq(ids, LAMBDA k : f[k] # 0)
     IN  [j \in 1..Len(answered) |->
            [segment_id |-> answered[j], slide_id |-> f[answered[j]]]] :
        f \in [Range(ids) -> CorrectionSlideIds \cup {0}]}

AnswersTwice(ids) ==
    {<<[segment_id |-> k, slide_id |-> a], [segment_id |-> k, slide_id |-> b]>> :
        <<k, a, b>> \in Range(ids) \X CorrectionSlideIds \X CorrectionSlideIds}

CorrectionResponses(ids) ==
    AnswersOnce(ids) \cup (IF Len(ids) >= 2 THEN AnswersTwice(ids) ELSE {})

(* post_process.py: sort the mappings and assemble them *)
post_process(segs, mappings) ==
    save_results(SortedByRank(mappings, MappingRanks(mappings)), segs)

(* lines 390-411: the non-blank texts of mapped_data, slide0 skipped, as
   [target_slide, text] in the order of mapped_data *)
RECURSIVE MappedTexts(_)
MappedTexts(mapped_data) ==
    IF mapped_data = <<>> THEN <<>>
    ELSE LET e == Head(mapped_data)
             NonBlank(sd) == Strip(sd.val) # <<>>
             here == IF e.key = 0 THEN <<>>
                     ELSE LET kept == SelectSeq(e.val, NonBlank)
                          IN  [k \in 1..Len(kept) |->
                                  [target_slide |-> e.key, text |-> kept[k].val]]
         IN  here \o MappedTexts(Tail(mapped_data))

TextsOf(ms) == [k \in 1..Len(ms) |-> ms[k].text]

(* variant: a later fragment is put in front of the earlier ones *)
RECURSIVE GroupByTarget_Reversed(_, _)
GroupByTarget_Reversed(moves, by_target) ==
    IF moves = <<>> THEN by_target
    ELSE LET m == Head(moves)
             old == IF HasKey(by_target, m.target_slide)
                    THEN DictGet(by_target, m.target_slide) ELSE <<>>
         IN  GroupByTarget_Reversed(Tail(moves),
                                    DictPut(by_target, m.target_slide, <<m.text>> \o old))

(* lines 427-433: group the moves by target, first appearance first *)
RECURSIVE GroupByTarget(_, _)
GroupByTarget(moves, by_target) ==
    IF moves = <<>> THEN by_target
    ELSE LET m == Head(moves)
             old == IF HasKey(by_target, m.target_slide)
                    THEN DictGet(by_target, m.target_slide) ELSE <<>>
         IN  GroupByTarget(Tail(moves),
                           DictPut(by_target, m.target_slide, Append(old, m.text)))

(* lines 436-488: splice each group into its target *)
RECURSIVE SpliceTargets(_, _, _)
SpliceTargets(doc, by_target, slide_num) ==
    IF by_target = <<>> THEN doc
    ELSE LET target_slide_num == Head(by_target).key
             ensured == EnsureEntry(doc, target_slide_num)
             existing_text == MainText(ensured, target_slide_num)
             combined_segments_text == Join(Head(by_target).val)
             next == IF target_slide_num = slide_num THEN ensured
                     ELSE SetMainText(ensured, target_slide_num,
                                      Spliced(existing_text, combined_segments_text,
                                              target_slide_num, slide_num))
         IN  SpliceTargets(next, Tail(by_target), slide_num)

(* lines 386-488 for one flagged slide, given the assembled mapping *)
apply_mapping(result_data, slide_num, mapped_data) ==
    LET entries == MappedTexts(mapped_data)
        Stays(e) == e.target_slide = slide_num
        Moves(e) == e.target_slide # slide_num
        segments_to_keep_in_original == TextsOf(SelectSeq(entries, Stays))
        segments_to_move == SelectSeq(entries, Moves)
        updated == IF HasKey(result_data, slide_num)
                      /\ HasKey(DictGet(result_data, slide_num), slide_num)
                   THEN SetMainText(result_data, slide_num,
                                    Strip(Join(segments_to_keep_in_original)))
                   ELSE result_data
        segments_by_target == GroupByTarget(segments_to_move, <<>>)
    IN  [doc |-> SpliceTargets(updated, segments_by_target, slide_num),
         kept |-> segments_to_keep_in_original,
         by_target |-> segments_by_target]

(* lines 315-344: a flagged slide is valid when it has non-blank text *)
ValidSleepSlide(result_data, slide_num) ==
    HasKey(result_data, slide_num) /\ AggregateText(result_data, slide_num) # <<>>

(* ---------------- stored documents the corrections start from -------- *)
WordX == <<"x">>
WordY == <<"y">>
DocTexts == {WordX, WordX \o SP \o WordX, WordX \o SP \o WordY}

(* streaming_server.py: one entry segment{N} per slide N, stripped text *)
RealtimeDocs ==
    {LET present == SelectSeq([k \in 1..MaxDocSlides |-> k], LAMBDA n : f[n] # <<>>)
     IN  [k \in 1..Len(present) |->
            [key |-> present[k],
             val |-> <<[key |-> present[k], val |-> f[present[k]]]>>]] :
        f \in [1..MaxDocSlides -> DocTexts \cup {<<>>}]}

(* the result of a full run over one-word segments, x and y in turn *)
BatchSegmentLists ==
    {[k \in 1..n |-> [id |-> k, text |-> IF k % 2 = 1 THEN WordX ELSE WordY]] :
        n \in 1..(MaxDocSlides + 1)}

BatchDocs ==
    {final_result(save_results([k \in 1..Len(segs) |->
                                   [segment_id |-> segs[k].id, slide_id |-> to[k]]], segs),
                  MaxDocSlides) :
        <<segs, to>> \in {st \in BatchSegmentLists \X SeqsUpTo(CorrectionSlideIds, MaxDocSlides + 1) :
                               Len(st[1]) = Len(st[2])}}

(* the texts a client may ask to move: what it can see on the slide, a
   text that is nowhere, or nothing *)
Substrings(t) == {SubSeq(t, a, b) : a \in 1..Len(t), b \in 1..Len(t)} \ {<<>>}

MoveTexts(doc, start_slide) ==
    {<<>>, <<"z">>} \cup Substrings(AggregateText(doc, start_slide))

(* ---------------- the requests ---------------- *)
InitStored ==
    /\ pc = "idle"
    /\ segments = <<>>
    /\ max_len = 1
    /\ min_len = 0
    /\ image_captioning_data = [k \in 1..MaxDocSlides |-> [slide_number |-> k, type |-> "content"]]
    /\ slide_window = 1
    /\ batches = <<>>
    /\ slides = <<>>
    /\ i = 0
    /\ current_centre = 0
    /\ relevant_slides = <<>>
    /\ batch_mappings = <<>>
    /\ all_mappings = <<>>
    /\ api_calls = <<>>
    /\ result = <<>>
    /\ result_json \in RealtimeDocs \cup BatchDocs
    /\ request = NoRequest
    /\ response = NoResponse
    /\ locals = NoLocals
    /\ corrections = 0
    /\ job_status = JobStatus(100, "completed")
    /\ job_results = NoJobResult
    /\ result_path_exists = TRUE

InitCorr ==
    /\ InitStored
    /\ handlers = <<>>
    /\ file_history = <<>>

runVars == <<inputVars, batches, slides, loopVars, result, jobVars>>

MoveSegment ==
    /\ pc = "idle"
    /\ corrections < MaxCorrections
    /\ \E start_slide \in 1..MaxDocSlides, target_slide \in 0..MaxDocSlides :
       \E text_to_move \in MoveTexts(result_json, start_slide) :
          LET out == move_segment(result_json, start_slide, target_slide, text_to_move)
          IN  /\ request' = [op |-> "move-segment", startSlide |-> start_slide,
                             targetSlide |-> target_slide, text |-> text_to_move]
              /\ result_json' = out.doc
              /\ response' = out.response
    /\ locals' = NoLocals
    /\ corrections' = corrections + 1
    /\ pc' = "responded"
    /\ UNCHANGED <<concVars, runVars>>

(* post-process of one flagged slide that is missing or has no text *)
PostProcessNothing ==
    /\ pc = "idle"
    /\ corrections < MaxCorrections
    /\ \E slide_num \in 1..MaxDocSlides :
          /\ ~ValidSleepSlide(result_json, slide_num)
          /\ request' = [op |-> "post-process", sleepSlides |-> <<slide_num>>]
    /\ response' = [status |-> 200, message |-> "No valid slides to process",
                    processed_slides |-> <<>>]
    /\ locals' = NoLocals
    /\ corrections' = corrections + 1
    /\ pc' = "responded"
    /\ UNCHANGED <<concVars, runVars, result_json>>

(* post-process of one flagged slide: re-split, classify, splice, save *)
PostProcess ==
    /\ pc = "idle"
    /\ corrections < MaxCorrections
    /\ \E slide_num \in 1..MaxDocSlides :
          /\ ValidSleepSlide(result_json, slide_num)
          /\ request' = [op |-> "post-process", sleepSlides |-> <<slide_num>>]
          /\ response' = [status |-> 200, message |-> "Post-processing completed successfully",
                          processed_slides |-> <<slide_num>>]
          /\ \E segs \in SegmentSplits(AggregateText(result_json, slide_num)) :
             \E mappings \in CorrectionResponses(IdsOf(segs)) :
                LET out == apply_mapping(result_json, slide_num, post_process(segs, mappings))
                IN  /\ result_json' = out.doc
                    /\ locals' = [outcome |-> "mapped", slide_num |-> slide_num,
                                  segments |-> segs, mappings |-> mappings,
                                  kept |-> out.kept, by_target |-> out.by_target]
    /\ corrections' = corrections + 1
    /\ pc' = "responded"
    /\ UNCHANGED <<concVars, runVars>>

(* post-process of one flagged slide, the re-split or the classifier
   failing: the slide is skipped and the document saved as it is *)
PostProcessFails ==
    /\ pc = "idle"
    /\ corrections < MaxCorrections
    /\ \E slide_num \in 1..MaxDocSlides :
          /\ ValidSleepSlide(result_json, slide_num)
          /\ request' = [op |-> "post-process", sleepSlides |-> <<slide_num>>]
          /\ response' = [status |-> 200, message |-> "Post-processing completed successfully",
                          processed_slides |-> <<slide_num>>]
          /\ \E failure \in {"split_error", "oracle_error"} :
                locals' = [outcome |-> failure, slide_num |-> slide_num]
    /\ corrections' = corrections + 1
    /\ pc' = "responded"
    /\ UNCHANGED <<concVars, runVars, result_json>>

(* the reply has been sent; the endpoint waits for the next request *)
Reply ==
    /\ pc = "responded"
    /\ pc' = "idle"
    /\ request' = NoRequest
    /\ response' = NoResponse
    /\ locals' = NoLocals
    /\ UNCHANGED <<concVars, runVars, result_json, corrections>>

NextCorr == MoveSegment \/ PostProcessNothing \/ PostProcess \/ PostProcessFails \/ Reply

SpecCorr == InitCorr /\ [][NextCorr]_vars

(* post_process_endpoint alone: one post-process request served on a
   stored document *)
NextPostProcess ==
    \/ corrections = 0 /\ (PostProcess \/ PostProcessNothing \/ PostProcessFails)
    \/ Reply

SpecPostProcess == InitCorr /\ [][NextPostProcess]_vars

(* corrections applied to a document of the realtime pipeline, which has
   one entry segment{N} per slide N *)
InitAggregate ==
    /\ InitCorr
    /\ result_json \in RealtimeDocs

SpecAggregate == InitAggregate /\ [][NextCorr]_vars

(* one correction request, of either kind, served on a stored document *)
NextRequest ==
    \/ corrections = 0 /\ MoveSegment
    \/ corrections = 0 /\ (PostProcess \/ PostProcessNothing \/ PostProcessFails)
    \/ Reply

SpecRequest == InitCorr /\ [][NextRequest]_vars

(* ================================================================== *)
(* Properties of the Batcher                                           *)
(* ================================================================== *)
RECURSIVE Flatten(_)
Flatten(ss) == IF ss = <<>> THEN <<>> ELSE Head(ss) \o Flatten(Tail(ss))

(* a batch obeys the budget, or is one segment that alone exceeds it *)
WithinBudget(block) ==
    \/ BlockLen(block) <= max_len
    \/ Len(block) = 1 /\ SnippetLen(block[1]) > max_len

(* a batch followed by an appended remainder shorter than min_len *)
MergedRemainder(block) ==
    \E k \in 1..(Len(block) - 1) :
        /\ WithinBudget(SubSeq(block, 1, k))
        /\ BlockLen(SubSeq(block, k + 1, Len(block))) < min_len

(* C1 as stated: every batch of a non-empty input is within max_len,
   unless it is exactly one oversized segment. *)
C1_Original ==
    (pc = "classifying" /\ segments # <<>>) =>
        \A b \in 1..Len(batches) : WithinBudget(batches[b])

(* C1 amended: every batch is within max_len unless it is exactly one
   oversized segment, or it is the last batch and a trailing remainder
   shorter than min_len was appended to it. *)
C1_BatchingBound ==
    (pc = "classifying" /\ segments # <<>>) =>
        \A b \in 1..Len(batches) :
            \/ WithinBudget(batches[b])
            \/ b = Len(batches) /\ MergedRemainder(batches[b])

C1_Witness ==
    /\ pc = "classifying"
    /\ Len(batches) >= 1
    /\ BlockLen(batches[Len(batches)]) > max_len
    /\ Len(batches[Len(batches)]) >= 2

(* C2: reading the segment ids out of the batches in batch order gives
   exactly the input id sequence; no id is dropped, duplicated, reordered. *)
C2_BatchingCoverage ==
    pc = "classifying" => IdsOf(Flatten(batches)) = IdsOf(segments)

C2_Witness ==
    /\ pc = "classifying"
    /\ Len(segments) >= 3
    /\ Len(batches) >= 2
    /\ \E b \in 1..Len(batches) : Len(batches[b]) >= 2

(* ================================================================== *)
(* Properties of the full alignment run                                *)
(* ================================================================== *)
Occurrences(ms, id) == Cardinality({k \in 1..Len(ms) : ms[k].segment_id = id})

(* C3: every mapping list accepted into the run covers the segment ids
   of its batch exactly once (a response that omits or repeats an id is
   rejected by the adapter). *)
C3_MappingCompleteness ==
    (pc \in {"classifying", "assembled"} /\ i >= 1) =>
        /\ \A id \in Range(IdsOfBatch(batches[i])) : Occurrences(batch_mappings, id) = 1
        /\ Len(batch_mappings) = Len(batches[i])

SlidesHolding(res, id) == {j \in 1..Len(res) : HasKey(res[j].val, id)}

(* C4: after a successful run every input segment id is stored under
   exactly one slide key, under slide0 exactly when it was mapped to -1
   and under slide{slide_id} otherwise, with the segment's input text. *)
C4_EverySegmentOnce ==
    pc = "assembled" =>
        \A k \in 1..Len(segments) :
            LET id == segments[k].id
                holders == SlidesHolding(result, id)
            IN  /\ Cardinality(holders) = 1
                /\ \A j \in holders :
                      /\ DictGet(result[j].val, id) = segments[k].text
                      /\ \E m \in Range(all_mappings) :
                            /\ m.segment_id = id
                            /\ result[j].key = (IF m.slide_id = -1 THEN 0 ELSE m.slide_id)

(* C5: after each batch, if its mappings contain a slide id other than
   -1, with maximum k, the next centre is k - 1; otherwise the centre is
   unchanged. *)
C5_CentreRule ==
    [][ (i' = i + 1) =>
          LET matched == {batch_mappings'[k].slide_id : k \in 1..Len(batch_mappings')} \ {-1}
          IN  IF matched = {}
              THEN current_centre' = current_centre
              ELSE \E k \in matched :
                      /\ \A j \in matched : j <= k
                      /\ current_centre' = k - 1 ]_vars

C5_Witness ==
    /\ pc = "classifying"
    /\ i >= 2
    /\ \E k \in 1..Len(batch_mappings) : batch_mappings[k].slide_id = 3
    /\ \E k \in 1..Len(batch_mappings) : batch_mappings[k].slide_id = -1
    /\ current_centre = 2

DeckIndex(s) == CHOOSE k \in 1..Len(image_captioning_data) : image_captioning_data[k] = s

(* C6: the window shown to the classifier holds only slides numbered
   >= 1 and within [centre - radius, centre + radius], none of them of
   type meta, in the order of the input deck. *)
C6_WindowingCorrectness ==
    [][ (i' = i + 1 \/ (pc = "classifying" /\ pc' = "failed")) =>
          /\ \A k \in 1..Len(relevant_slides') :
                /\ relevant_slides'[k] \in Range(image_captioning_data)
                /\ relevant_slides'[k].slide_number >= 1
                /\ relevant_slides'[k].slide_number >= current_centre - slide_window
                /\ relevant_slides'[k].slide_number <= current_centre + slide_window
                /\ relevant_slides'[k].type # "meta"
          /\ \A a, b \in 1..Len(relevant_slides') :
                a < b => DeckIndex(relevant_slides'[a]) < DeckIndex(relevant_slides'[b]) ]_vars

C6_Witness ==
    /\ pc = "classifying"
    /\ i >= 2
    /\ Len(relevant_slides) >= 1
    /\ Len(relevant_slides) < Len(slides)
    /\ Len(slides) < Len(image_captioning_data)

(* ================================================================== *)
(* Overlapping correction requests on one job                          *)
(* ================================================================== *)
(* the two requests the server threads answer at the same time *)
Handlers == {1, 2}

(* a request, with what the re-split and the classifier will answer for
   a post-process: the slide text as one fragment, mapped to one slide *)
ConcurrentRequests ==
    [op : {"move-segment"}, startSlide : 1..MaxDocSlides,
     targetSlide : 0..MaxDocSlides, text : {WordX, WordY}]
    \cup [op : {"post-process"}, slide_num : 1..MaxDocSlides, slide_id : CorrectionSlideIds]

(* realtime.py lines 307-615 and 714-796 without the load and the save:
   the document the request computes from the one it loaded, and whether
   it reaches the save *)
Corrected(result_data, req) ==
    IF req.op = "move-segment"
    THEN LET out == move_segment(result_data, req.startSlide, req.targetSlide, req.text)
         IN  [doc |-> out.doc, saves |-> out.response.status = 200]
    ELSE IF ~ValidSleepSlide(result_data, req.slide_num)
         THEN [doc |-> result_data, saves |-> FALSE]
         ELSE LET segs == <<[id |-> 1, text |-> AggregateText(result_data, req.slide_num)]>>
                  mappings == <<[segment_id |-> 1, slide_id |-> req.slide_id]>>
              IN  [doc |-> apply_mapping(result_data, req.slide_num,
                                         post_process(segs, mappings)).doc,
                   saves |-> TRUE]

InitConc ==
    /\ InitStored
    /\ handlers = [h \in Handlers |-> [pc |-> "idle"]]
    /\ file_history = <<result_json>>

servedVars == <<pc, runVars, request, response, locals, corrections>>

(* realtime.py lines 307-308, 714-716: a request loads result.json *)
LoadResult ==
    \E h \in Handlers, req \in ConcurrentRequests :
        /\ handlers[h].pc = "idle"
        /\ handlers' = [handlers EXCEPT ![h] =
                            [pc |-> "loaded", request |-> req, result_data |-> result_json]]
        /\ UNCHANGED <<servedVars, result_json, file_history>>

(* realtime.py lines 338-344, 720-734: the request answers without saving *)
ReturnEarly ==
    \E h \in Handlers :
        /\ handlers[h].pc = "loaded"
        /\ ~Corrected(handlers[h].result_data, handlers[h].request).saves
        /\ handlers' = [handlers EXCEPT ![h].pc = "done"]
        /\ UNCHANGED <<servedVars, result_json, file_history>>

(* realtime.py lines 610-615, 793-796: the request writes the document
   it computed from the one it loaded *)
SaveResult ==
    \E h \in Handlers :
        /\ handlers[h].pc = "loaded"
        /\ Corrected(handlers[h].result_data, handlers[h].request).saves
        /\ result_json' = Corrected(handlers[h].result_data, handlers[h].request).doc
        /\ file_history' = Append(file_history, result_json')
        /\ handlers' = [handlers EXCEPT ![h].pc = "done"]
        /\ UNCHANGED servedVars

NextConc == LoadResult \/ ReturnEarly \/ SaveResult

SpecConc == InitConc /\ [][NextConc]_vars

(* what applying the requests one after the other gives *)
InSequence(doc, first, second) ==
    Corrected(Corrected(doc, first).doc, second).doc

(* C12: when two correction requests against the same job overlap, the
   document stored in the end is the outcome of applying both
   corrections in some sequential order. *)
C12_SerializedWrites ==
    (\A h \in Handlers : handlers[h].pc = "done") =>
        \/ result_json = InSequence(file_history[1], handlers[1].request, handlers[2].request)
        \/ result_json = InSequence(file_history[1], handlers[2].request, handlers[1].request)

(* ================================================================== *)
(* Properties of the Correction Engine                                 *)
(* ================================================================== *)
Mapped == pc' = "responded" /\ locals'.outcome = "mapped"

(* C7: when post-process of slide s moves text to a target slide t whose
   aggregate text is non-empty, the target's text becomes
   existing + " " + moved if t < s and moved + " " + existing if t > s. *)
C7_SplicingOrder ==
    [][ Mapped =>
          \A k \in 1..Len(locals'.by_target) :
              LET t == locals'.by_target[k].key
                  s == locals'.slide_num
                  moved == Join(locals'.by_target[k].val)
                  existing == AggregateText(result_json, t)
              IN  (existing # <<>> /\ t # s) =>
                      AggregateText(result_json', t) =
                          (IF t < s THEN existing \o SP \o moved
                                    ELSE moved \o SP \o existing) ]_vars

Moved(target) ==
    /\ pc' = "responded"
    /\ request'.op = "move-segment"
    /\ response'.status = 200
    /\ request'.targetSlide = target

(* the text with the occurrence of sub at position p taken out *)
RemoveAt(t, p, sub) == SubSeq(t, 1, p - 1) \o SubSeq(t, p + Len(sub), Len(t))

OccurrencesOf(t, sub) == {p \in 1..(Len(t) - Len(sub) + 1) : SubSeq(t, p, p + Len(sub) - 1) = sub}

(* C8: a deletion (target_slide = 0) removes exactly one occurrence of
   the text from the start slide's aggregate text; the rest of the text,
   whitespace-normalized, is unchanged. *)
C8_DeleteOneOccurrence ==
    [][ Moved(0) =>
          LET before == AggregateText(result_json, request'.startSlide)
          IN  \E p \in OccurrencesOf(before, request'.text) :
                  AggregateText(result_json', request'.startSlide) =
                      Join(Split(RemoveAt(before, p, request'.text))) ]_vars

(* C9: move-segment answers 'not found' exactly when the text is not a
   substring of the start slide's aggregate text, and succeeds when the
   text is a substring of what is stored under the start slide. *)
C9_NotFoundIffAbsent ==
    [][ (pc' = "responded" /\ request'.op = "move-segment" /\ request'.text # <<>>) =>
          LET present == Contains(AggregateText(result_json, request'.startSlide),
                                  request'.text)
          IN  /\ response'.status = 404 <=> ~present
              /\ present => response'.status = 200 ]_vars

(* C10: after a successful move to another slide, the target slide and
   its segment entry exist and the target's aggregate text is
   existing + " " + text when target < start and text + " " + existing
   otherwise, just text when existing is empty (compared up to the
   surrounding whitespace the endpoint strips). *)
C10_DirectionalSplice ==
    [][ \A target \in 1..MaxDocSlides :
          (Moved(target) /\ target # request'.startSlide) =>
              LET existing == AggregateText(result_json, target)
                  text == request'.text
              IN  /\ HasKey(result_json', target)
                  /\ HasKey(DictGet(result_json', target), target)
                  /\ AggregateText(result_json', target) =
                        Strip(IF existing = <<>> THEN text
                              ELSE IF target < request'.startSlide
                                   THEN existing \o SP \o text
                                   ELSE text \o SP \o existing) ]_vars

(* ================================================================== *)
(* Properties of the job around the full run                           *)
(* ================================================================== *)

(* C11: when a classifier call fails during a full run, no later batch
   is classified, no result.json is written, no job result is stored,
   and the job ends in status 'failed'. *)
C11_WriteThenCommit ==
    /\ [](pc = "failed" =>
            /\ ~result_path_exists
            /\ ~job_results.stored
            /\ job_status.status = "failed")
    /\ [][pc = "failed" =>
            /\ pc' = "failed"
            /\ i' = i
            /\ all_mappings' = all_mappings
            /\ job_status' = job_status]_vars

(* a classifier call failed after one batch was classified, with
   mappings already collected *)
C11_Witness ==
    pc = "failed" /\ i >= 1 /\ i < Len(batches) /\ all_mappings # <<>>

(* the centre after a call: one less than the highest slide id other
   than -1 among its mappings, the centre of the call when there is none *)
CentreAfter(centre, mappings) ==
    LET matched == {mappings[k].slide_id : k \in 1..Len(mappings)} \ {-1}
    IN  IF matched = {} THEN centre
        ELSE (CHOOSE k \in matched : \A j \in matched : j <= k) - 1

(* the centre each call was made with, from the first centre on *)
RECURSIVE CentreOfCall(_)
CentreOfCall(n) ==
    IF n = 1
    THEN (IF \E k \in 1..Len(image_captioning_data) : image_captioning_data[k].type # "meta"
          THEN image_captioning_data[
                   CHOOSE k \in 1..Len(image_captioning_data) :
                       /\ image_captioning_data[k].type # "meta"
                       /\ \A j \in 1..(k - 1) : image_captioning_data[j].type = "meta"].slide_number
          ELSE 1)
    ELSE CentreAfter(CentreOfCall(n - 1), api_calls[n - 1].mappings)

(* the selection around a centre: the numbers of the non-meta slides
   within the radius *)
SelectionAround(centre) ==
    {image_captioning_data[k].slide_number :
        k \in {j \in 1..Len(image_captioning_data) :
                  /\ image_captioning_data[j].type # "meta"
                  /\ image_captioning_data[j].slide_number >= 1
                  /\ image_captioning_data[j].slide_number >= centre - slide_window
                  /\ image_captioning_data[j].slide_number <= centre + slide_window}}

NumbersOf(window) == {window[k].slide_number : k \in 1..Len(window)}

(* C13: in a full run the classifier is called once per batch, in batch
   order, each call made after the one before returned, and the window
   of call n+1 is the selection around the centre that the centre rule
   gives from call n's mappings. *)
C13_SequentialBatches ==
    /\ Len(api_calls) <= Len(batches)
    /\ pc = "assembled" => Len(api_calls) = Len(batches)
    /\ \A n \in 1..Len(api_calls) :
          /\ api_calls[n].message_count = n
          /\ api_calls[n].batch = batches[n]
          /\ n < Len(api_calls) => api_calls[n].returned
          /\ NumbersOf(api_calls[n].relevant_slides) = SelectionAround(CentreOfCall(n))

(* a third call was made, its window differing from the second call's *)
C13_Witness ==
    /\ Len(api_calls) >= 3
    /\ api_calls[3].relevant_slides # api_calls[2].relevant_slides
    /\ api_calls[2].relevant_slides # api_calls[1].relevant_slides

(* ================================================================== *)
(* Properties of the Result Assembler                                  *)
(* ================================================================== *)
Ascending(keys) == \A a, b \in 1..Len(keys) : a < b => keys[a] < keys[b]

(* C14: for any list of mappings the assembler emits the slide keys in
   ascending numeric order, slide0 first, and within every slide the
   segment keys in ascending numeric order. *)
C14_CanonicalOrdering ==
    pc = "saved" =>
        /\ Ascending(Keys(result))
        /\ \A k \in 1..Len(result) :
              /\ result[k].key = 0 => k = 1
              /\ Ascending(Keys(result[k].val))

(* mappings given out of order, slide0 among the slides, one slide
   holding two segments *)
C14_Witness ==
    /\ pc = "saved"
    /\ Len(all_mappings) >= 3
    /\ all_mappings[1].slide_id > all_mappings[2].slide_id
    /\ all_mappings[2].slide_id = -1
    /\ all_mappings[1].slide_id = all_mappings[3].slide_id
    /\ all_mappings[1].segment_id > all_mappings[3].segment_id

(* ================================================================== *)
(* Further properties of the Batcher                                   *)
(* ================================================================== *)
(* what the batching loop ends with: the batches flushed and the
   partial accumulator *)
LoopEnd == MergeLoop(segments, <<>>, <<>>, max_len)

AppendedToLast ==
    /\ LoopEnd.batches # <<>>
    /\ Len(batches) = Len(LoopEnd.batches)
    /\ \A k \in 1..(Len(batches) - 1) : batches[k] = LoopEnd.batches[k]
    /\ batches[Len(batches)] = LoopEnd.batches[Len(batches)] \o LoopEnd.cur

EmittedAsFinal == batches = LoopEnd.batches \o <<LoopEnd.cur>>

(* C15: when the batching loop ends with a non-empty accumulator, it is
   appended to the last flushed batch if and only if a batch was already
   flushed and the accumulator is shorter than min_len; otherwise it is
   emitted as a new final batch. *)
C15_TrailingRemainder ==
    (pc = "classifying" /\ LoopEnd.cur # <<>>) =>
        /\ AppendedToLast <=> (LoopEnd.batches # <<>> /\ BlockLen(LoopEnd.cur) < min_len)
        /\ ~AppendedToLast => EmittedAsFinal

(* a batch was flushed and the accumulator is exactly min_len long *)
C15_Witness ==
    /\ pc = "classifying"
    /\ LoopEnd.cur # <<>>
    /\ LoopEnd.batches # <<>>
    /\ BlockLen(LoopEnd.cur) = min_len

Oversized(seg) == SnippetLen(Snippet(seg)) > max_len

(* the batches that hold the segment, untruncated *)
BatchesHolding(seg) ==
    {k \in 1..Len(batches) : \E j \in 1..Len(batches[k]) : batches[k][j] = Snippet(seg)}

(* C16 as stated: a segment whose snippet alone exceeds max_len is
   emitted untruncated in a batch that contains no other segment,
   wherever it occurs in the input. *)
C16_Original ==
    pc = "classifying" =>
        \A n \in 1..Len(segments) :
            Oversized(segments[n]) =>
                \E k \in BatchesHolding(segments[n]) : Len(batches[k]) = 1

(* C16, amended: such a segment is emitted untruncated in exactly one
   batch, and that batch contains no other segment unless it is the last
   batch and the trailing remainder was appended to what had been
   flushed. *)
C16_OversizedSegment ==
    pc = "classifying" =>
        \A n \in 1..Len(segments) :
            Oversized(segments[n]) =>
                /\ Cardinality(BatchesHolding(segments[n])) = 1
                /\ \A k \in BatchesHolding(segments[n]) :
                      \/ Len(batches[k]) = 1
                      \/ /\ k = Len(batches)
                         /\ LoopEnd.cur # <<>>
                         /\ AppendedToLast

(* an oversized segment in the middle of the input, after a segment
   that fits, sharing the last batch with the appended remainder *)
C16_Witness ==
    /\ pc = "classifying"
    /\ max_len > 1
    /\ Len(segments) >= 3
    /\ Oversized(segments[2])
    /\ ~Oversized(segments[1])
    /\ \E k \in BatchesHolding(segments[2]) : Len(batches[k]) = 2

(* ================================================================== *)
(* Further properties of the full run                                  *)
(* ================================================================== *)
NonMetaPositions ==
    {k \in 1..Len(image_captioning_data) : image_captioning_data[k].type # "meta"}

(* C17: the centre used for the first batch of a full run is the number
   of the first non-meta slide if a non-meta slide exists, and 1
   otherwise. *)
C17_InitialCentre ==
    /\ (pc = "classifying" /\ i = 0) =>
            IF NonMetaPositions = {}
            THEN current_centre = 1
            ELSE \E k \in NonMetaPositions :
                    /\ \A j \in NonMetaPositions : k <= j
                    /\ current_centre = image_captioning_data[k].slide_number
    /\ Len(api_calls) >= 1 =>
            \A k \in 1..Len(api_calls[1].relevant_slides) :
                LET first == IF NonMetaPositions = {} THEN 1
                             ELSE image_captioning_data[
                                      CHOOSE p \in NonMetaPositions :
                                          \A j \in NonMetaPositions : p <= j].slide_number
                    number == api_calls[1].relevant_slides[k].slide_number
                IN  number >= first - slide_window /\ number <= first + slide_window

(* the deck starts with a meta slide and has a non-meta slide later; the
   first batch has been classified *)
C17_Witness ==
    /\ Len(api_calls) >= 1
    /\ image_captioning_data # <<>>
    /\ image_captioning_data[1].type = "meta"
    /\ NonMetaPositions # {}
    /\ api_calls[1].relevant_slides # <<>>

(* ================================================================== *)
(* Properties of the candidates of post-process                        *)
(* ================================================================== *)
(* C18: for every meta-filtered slide list with unique numbers >= 1 and
   every flagged slide c >= 1, the candidates post-process shows the
   classifier are exactly the slides the Window Selector returns for
   centre c and radius 1: the non-meta slides among c-1, c, c+1. *)
C18_RadiusOneWindow ==
    pc = "selected" =>
        /\ Range(relevant_slides) = Range(slice_slides(slides, current_centre, 1))
        /\ Len(relevant_slides) = Len(slice_slides(slides, current_centre, 1))
        /\ Range(relevant_slides) =
              {s \in Range(image_captioning_data) :
                  /\ s.type # "meta"
                  /\ s.slide_number \in {current_centre - 1, current_centre, current_centre + 1}}

(* a deck with a meta slide and out of number order, two candidates
   returned, the flagged slide not slide 1 *)
C18_Witness ==
    /\ pc = "selected"
    /\ Len(relevant_slides) = 2
    /\ Len(slides) < Len(image_captioning_data)
    /\ current_centre >= 2
    /\ relevant_slides # slice_slides(slides, current_centre, 1)

(* ================================================================== *)
(* Further properties of post-process                                  *)
(* ================================================================== *)
(* the fragments the classifier sent to slide t, in fragment order *)
SentTo(segs, mappings, t) ==
    LET Sent(sg) == \E j \in 1..Len(mappings) :
                        mappings[j].segment_id = sg.id /\ mappings[j].slide_id = t
    IN  SelectSeq(segs, Sent)

EntryText(doc, slide_num) ==
    IF HasKey(doc, slide_num) /\ HasKey(DictGet(doc, slide_num), slide_num)
    THEN MainText(doc, slide_num) ELSE <<>>

(* C19: when post-process of slide s sends several fragments to the same
   target slide, they are spliced as one contiguous block, in ascending
   fragment id order, whether the block is appended or prepended. *)
C19_GroupedSplicing ==
    [][ Mapped =>
          \A t \in 1..MaxDocSlides :
              LET s == locals'.slide_num
                  sent == SentTo(locals'.segments, locals'.mappings, t)
                  block == Join(TextsOf(sent))
                  before == EntryText(result_json, t)
              IN  (t # s /\ Len(sent) >= 2) =>
                      /\ EntryText(result_json', t) =
                            (IF before = <<>> THEN block
                             ELSE IF t < s THEN before \o SP \o block
                                           ELSE block \o SP \o before)
                      /\ Contains(AggregateText(result_json', t), block) ]_vars

(* two fragments with different texts were sent to a slide that had
   text of its own *)
C19_Witness ==
    /\ pc = "responded"
    /\ locals.outcome = "mapped"
    /\ \E t \in 1..MaxDocSlides :
          /\ t # locals.slide_num
          /\ Len(SentTo(locals.segments, locals.mappings, t)) = 2
          /\ locals.segments[1].text # locals.segments[2].text
          /\ Len(Split(AggregateText(result_json, t))) >= 3

(* C20: after post-process of a flagged slide s that has text, the whole
   text stored under s is the fragments the classifier kept on s,
   space-joined in fragment order (empty when none was kept); a fragment
   mapped to s is not spliced into s a second time. *)
C20_KeptReplacesText ==
    [][ Mapped =>
          LET s == locals'.slide_num
              kept == SentTo(locals'.segments, locals'.mappings, s)
          IN  AggregateText(result_json', s) = Join(TextsOf(kept)) ]_vars

(* ================================================================== *)
(* Properties of one correction request                                *)
(* ================================================================== *)
LookupError ==
    /\ pc' = "responded"
    /\ \/ request'.op = "move-segment" /\ response'.status = 404
       \/ request'.op = "post-process" /\ response'.processed_slides = <<>>

(* C21: a correction request that hits a lookup error (start slide
   missing, its segment entry missing, text not found, no flagged slide
   with text) leaves the stored document exactly as it was. *)
C21_LookupErrorFrame ==
    [][ LookupError => result_json' = result_json ]_vars

(* the text asked for is not in a start slide that has text; a flagged
   slide that is absent from a document that is not empty *)
C21_Witness ==
    /\ pc = "responded"
    /\ result_json # <<>>
    /\ \/ /\ request.op = "move-segment"
          /\ response.status = 404
          /\ response.error = "Text to move not found"
          /\ AggregateText(result_json, request.startSlide) # <<>>
       \/ /\ request.op = "post-process"
          /\ response.processed_slides = <<>>

(* C22: when the classifier call fails while a flagged slide is
   post-processed, the reply is an explicit failure for that slide, not
   a success that lists the slide among the processed slides. *)
C22_ExplicitOracleFailure ==
    (pc = "responded" /\ locals.outcome = "oracle_error") =>
        ~(/\ response.status = 200
          /\ locals.slide_num \in Range(response.processed_slides))

(* every slide key and every segment key of before is in after *)
KeysKept(before, after) ==
    \A s \in Range(Keys(before)) :
        /\ HasKey(after, s)
        /\ \A g \in Range(Keys(DictGet(before, s))) : HasKey(DictGet(after, s), g)

(* a is b with some characters taken out *)
RECURSIVE IsSubsequence(_, _)
IsSubsequence(a, b) ==
    IF a = <<>> THEN TRUE
    ELSE IF b = <<>> THEN FALSE
    ELSE IF Head(a) = Head(b) THEN IsSubsequence(Tail(a), Tail(b))
         ELSE IsSubsequence(a, Tail(b))

(* C23: a correction never deletes an entry: every slide key and every
   segment key of the stored document is still there after any request;
   a deletion (target_slide = 0) changes nothing but the text of the
   start slide, from which it only takes characters out. *)
C23_NeverDeletesEntries ==
    [][ /\ KeysKept(result_json, result_json')
        /\ Moved(0) =>
              LET start == request'.startSlide
              IN  /\ Keys(result_json') = Keys(result_json)
                  /\ \A s \in Range(Keys(result_json)) :
                        /\ Keys(DictGet(result_json', s)) = Keys(DictGet(result_json, s))
                        /\ \A g \in Range(Keys(DictGet(result_json, s))) :
                              <<s, g>> # <<start, start>> =>
                                  DictGet(DictGet(result_json', s), g) =
                                      DictGet(DictGet(result_json, s), g)
                  /\ IsSubsequence(AggregateText(result_json', start),
                                   AggregateText(result_json, start))
                  /\ Len(AggregateText(result_json', start)) <
                         Len(AggregateText(result_json, start)) ]_vars

(* a deletion has emptied the only entry of the start slide, which is
   still there *)
C23_Witness ==
    /\ pc = "responded"
    /\ request.op = "move-segment"
    /\ request.targetSlide = 0
    /\ response.status = 200
    /\ HasKey(result_json, request.startSlide)
    /\ AggregateText(result_json, request.startSlide) = <<>>

(* the words stored in the whole document, slide by slide *)
RECURSIVE AllWords(_)
AllWords(doc) ==
    IF doc = <<>> THEN <<>>
    ELSE Split(SlideText(Head(doc).val)) \o AllWords(Tail(doc))

WordCount(words, w) == Cardinality({k \in 1..Len(words) : words[k] = w})

SameWords(a, b) == \A w \in Range(a) \cup Range(b) : WordCount(a, w) = WordCount(b, w)

(* C24: post-process conserves text: whatever the classifier returns
   (slide_id -1 and new targets included) and whichever segment keys the
   flagged slide has, every fragment of its re-split text is stored
   exactly once afterwards and nothing else of its old text remains: the
   document holds the same words as before, each as many times. *)
C24_PostProcessConservesText ==
    [][ Mapped => SameWords(AllWords(result_json'), AllWords(result_json)) ]_vars

(* ================================================================== *)
(* Further properties of the full alignment run                        *)
(* ================================================================== *)
(* the calls whose batch held segment id *)
CallsHolding(id) ==
    {n \in 1..Len(api_calls) : id \in Range(IdsOfBatch(api_calls[n].batch))}

(* C25: in the result of a full run, every key slideN with N >= 1 names
   a non-meta slide of the window shown to the classifier for the batch
   of each segment stored under it, whatever ids the classifier returns. *)
C25_OnlyOfferedSlides ==
    pc = "assembled" =>
        \A j \in 1..Len(result) :
            result[j].key >= 1 =>
                \A id \in Range(Keys(result[j].val)) :
                    \E n \in CallsHolding(id) :
                        \E s \in Range(api_calls[n].relevant_slides) :
                            s.slide_number = result[j].key /\ s.type # "meta"

(* ================================================================== *)
(* Further properties of move-segment                                  *)
(* ================================================================== *)
(* the words stored on the start slide and on the target slide *)
WordsOfPair(doc, start, target) ==
    Split(AggregateText(doc, start)) \o
        (IF target = start THEN <<>> ELSE Split(AggregateText(doc, target)))

(* C26: a successful move to another slide conserves text: the words
   stored on the start slide and the target slide together are the same
   after the move as before, each as many times, also when the moved
   text occurs more than once on the start slide. *)
C26_MoveConservesWords ==
    [][ \A target \in 1..MaxDocSlides :
          (Moved(target) /\ target # request'.startSlide) =>
              SameWords(WordsOfPair(result_json', request'.startSlide, target),
                        WordsOfPair(result_json, request'.startSlide, target)) ]_vars

(* every slide id other than -1 returned by call n was in its window *)
Compliant(n) ==
    ValidMappings(api_calls[n].mappings) \subseteq NumbersOf(api_calls[n].relevant_slides)

(* the calls before call n that matched a slide *)
MatchedBefore(n) == {m \in 1..(n - 1) : ValidMappings(api_calls[m].mappings) # {}}

(* C27: with a radius of at least 1 and a deck that has candidate
   slides, as long as the classifier only returns -1 or slides of the
   window it was shown, the window of every batch is non-empty and holds
   the highest slide matched by the most recent batch that matched one. *)
C27_WindowNeverEmpty ==
    (slide_window >= 1 /\ \E s \in Range(image_captioning_data) : s.type # "meta") =>
        \A n \in 1..Len(api_calls) :
            (\A m \in 1..(n - 1) : Compliant(m)) =>
                /\ api_calls[n].relevant_slides # <<>>
                /\ MatchedBefore(n) # {} =>
                      LET last == SetMax(MatchedBefore(n))
                      IN  SetMax(ValidMappings(api_calls[last].mappings)) \in
                              NumbersOf(api_calls[n].relevant_slides)

(* a third batch is classified after a batch that matched nothing, the
   first batch having matched slide 3 of a deck with a meta slide *)
C27_Witness ==
    /\ slide_window >= 1
    /\ Len(api_calls) >= 3
    /\ Compliant(1) /\ Compliant(2)
    /\ SetMax(ValidMappings(api_calls[1].mappings) \cup {0}) = 3
    /\ ValidMappings(api_calls[2].mappings) = {}
    /\ \E s \in Range(image_captioning_data) : s.type = "meta"

(* the entries of before are in after, in the same order and with the
   same value; after may end with one more entry, keyed extra *)
SameOrOneMore(before, after, extra) ==
    \/ Keys(after) = Keys(before)
    \/ ~HasKey(before, extra) /\ Keys(after) = Append(Keys(before), extra)

(* C29: a successful move-segment changes only the text of the start
   slide's segment{start} entry and, when target_slide is not 0, the text
   of the target slide's segment{target} entry, created when absent;
   every other slide and every other segment entry is unchanged. *)
C29_MoveSegmentFrame ==
    [][ \A target \in 0..MaxDocSlides :
          Moved(target) =>
              LET start == request'.startSlide
                  Written(s, g) == <<s, g>> = <<start, start>> \/ <<s, g>> = <<target, target>>
              IN  /\ SameOrOneMore(result_json, result_json', target)
                  /\ \A s \in Range(Keys(result_json')) :
                        LET old == IF HasKey(result_json, s) THEN DictGet(result_json, s)
                                   ELSE <<>>
                            new == DictGet(result_json', s)
                        IN  /\ IF s = target THEN SameOrOneMore(old, new, target)
                                             ELSE Keys(new) = Keys(old)
                            /\ \A g \in Range(Keys(old)) :
                                  ~Written(s, g) => DictGet(new, g) = DictGet(old, g) ]_vars

(* a move to another slide has added the entry segment{target} to a
   target slide that had another entry *)
C29_Witness ==
    /\ pc = "responded"
    /\ request.op = "move-segment"
    /\ response.status = 200
    /\ request.targetSlide # 0
    /\ request.targetSlide # request.startSlide
    /\ HasKey(result_json, request.targetSlide)
    /\ LET segs == DictGet(result_json, request.targetSlide)
       IN  Len(segs) >= 2 /\ segs[Len(segs)].key = request.targetSlide

(* ================================================================== *)
(* Properties of sequences of corrections                              *)
(* ================================================================== *)
SingleAggregate(doc) == \A k \in 1..Len(doc) : Keys(doc[k].val) = <<doc[k].key>>

(* C28: when every slide N of the stored document has exactly one
   segment entry, keyed segmentN, every slide N still has exactly one
   entry, keyed segmentN, after any sequence of post-process and
   move-segment requests. *)
C28_SingleAggregatePreserved ==
    SingleAggregate(result_json)

(* a move has created its target slide, after the slides that were there *)
C28_Witness ==
    /\ pc = "responded"
    /\ request.op = "move-segment"
    /\ response.status = 200
    /\ request.targetSlide # 0
    /\ Len(result_json) >= 2
    /\ result_json[Len(result_json)].key = request.targetSlide
    /\ result_json[Len(result_json)].key < result_json[1].key

(* ================================================================== *)
(* Further properties of the job around the full run                   *)
(* ================================================================== *)
(* C30: whenever the job's status reads 'completed' (progress 100),
   result.json has been written and get_job_result returns the final
   result, so no reader, at whatever point of the worker's run it reads,
   sees 'completed' without a result. *)
C30_CompletedHasResult ==
    (job_status.status = "completed" \/ job_status.progress = 100) =>
        /\ job_status = JobStatus(100, "completed")
        /\ result_path_exists
        /\ job_results.stored
        /\ job_results.result = result_json
        /\ result_json = final_result(result, Len(image_captioning_data))

(* a completed job whose result holds a slide *)
C30_Witness ==
    /\ pc = "completed"
    /\ job_status.status = "completed"
    /\ job_results.result # <<>>

====
